---- MODULE Spec2Model ----
(***************************************************************************)
(* Merkle tree of src/src/tree.ts: the constructor, the root getter,       *)
(* prove and verify.  Leaf (./leaf) and Node (./node) are imported by      *)
(* tree.ts; their sources are not part of src/, so they are modelled from  *)
(* the specification: a Leaf is an orderable value, a Node is a hash value *)
(* with an order-sensitive, collision-free combine and value equality.     *)
(*                                                                         *)
(* A hash value is a term: Node(v) is <<v>>, hash(a, b) is <<a, b>>.       *)
(* Indices are 0-based as in the source; At reads an array the way         *)
(* JavaScript does (undefined outside the bounds).                         *)
(***************************************************************************)
EXTENDS Integers, Sequences, FiniteSets, TLC

MaxLeaves == 4
MaxVal == 3

Values == 1..MaxVal

VARIABLES input, leaves, constructed, last

vars == <<input, leaves, constructed, last>>

(***************************************************************************)
(* Leaf and Node (modelled from the specification)                         *)
(***************************************************************************)

\* the value an absent array element or an unset result reads as
Undefined == <<>>

\* new Node(leaf.value): a bottom-level node wrapping the leaf's commitment
Node(v) == <<v>>

\* Node.hash: parent of two children, left = self, right = sibling
hash(self, sibling) == <<self, sibling>>

\* Node.eq: value equality
eq(a, b) == a = b

\* Leaf.gte: the boolean "is greater or equal" predicate on leaf values
gte(a, b) == a >= b

(***************************************************************************)
(* JavaScript helpers                                                      *)
(***************************************************************************)

\* arr[i] with a 0-based index; undefined outside 0..length-1
At(arr, i) == IF i >= 0 /\ i < Len(arr) THEN arr[i + 1] ELSE Undefined

\* a % 2 of JavaScript: the result takes the sign of the dividend
JSRem2(a) == IF a >= 0 THEN a % 2 ELSE 0 - ((0 - a) % 2)

\* ToNumber of a boolean, applied to the comparator's result by Array.sort
ToNumber(b) == IF b THEN 1 ELSE 0

\* the comparator handed to Array.prototype.sort by the constructor
comparefn(a, b) == ToNumber(gte(a, b))

\* ECMA-262 "consistent comparator" over the values being sorted
ConsistentComparator(S) ==
    /\ \A a \in S : comparefn(a, a) = 0
    /\ \A a, b \in S : (comparefn(a, b) = 0) => (comparefn(b, a) = 0)
    /\ \A a, b \in S : (comparefn(a, b) < 0) => (comparefn(b, a) > 0)
    /\ \A a, b \in S : (comparefn(a, b) > 0) => (comparefn(b, a) < 0)
    /\ \A a, b, c \in S :
          (comparefn(a, b) <= 0 /\ comparefn(b, c) <= 0) => comparefn(a, c) <= 0

\* all arrangements of the elements of s
Arrangements(s) ==
    {[i \in 1..Len(s) |-> s[f[i]]] : f \in Permutations(1..Len(s))}

\* ascending by the comparator's sign
SortedBy(s) == \A i \in 1..(Len(s) - 1) : comparefn(s[i], s[i + 1]) <= 0

\* Array.prototype.sort(comparefn): with fewer than two elements nothing is
\* compared; with a consistent comparator the result is the sorted
\* arrangement; otherwise the order is implementation-defined
SortOutcomes(s) ==
    IF Len(s) < 2 THEN {s}
    ELSE IF ConsistentComparator({s[i] : i \in 1..Len(s)})
         THEN {t \in Arrangements(s) : SortedBy(t)}
         ELSE Arrangements(s)

\* Math.ceil(Math.log2(n)) for n >= 1
CeilLog2(n) ==
    CHOOSE k \in 0..n : 2^k >= n /\ (k = 0 \/ 2^(k - 1) < n)

\* this.leaves.map((leaf) => new Node(leaf.value))
LeafNodes(ls) == [i \in 1..Len(ls) |-> Node(ls[i])]

(***************************************************************************)
(* Tree.root                                                               *)
(***************************************************************************)

EmptyRootError == "Cannot generate merkle root from empty tree."
EmptyProveError == "Cannot find prove from empty tree!"

RECURSIVE rootForDup(_, _, _)
\* rootFor with the odd last node combined with itself instead of carried up
rootForDup(nodes, i, temp) ==
    IF ~(i < Len(nodes)) THEN temp
    ELSE IF At(nodes, i + 1) = Undefined
         THEN Append(temp, hash(At(nodes, i), At(nodes, i)))
         ELSE rootForDup(nodes, i + 2,
                         Append(temp, hash(At(nodes, i), At(nodes, i + 1))))

RECURSIVE rootFor(_, _, _)
\* the for loop of root: pair nodes[i] with nodes[i+1]; when nodes[i+1] is
\* missing push nodes[i] alone and break
rootFor(nodes, i, temp) ==
    IF ~(i < Len(nodes)) THEN temp
    ELSE IF At(nodes, i + 1) = Undefined
         THEN Append(temp, At(nodes, i))
         ELSE rootFor(nodes, i + 2,
                      Append(temp, hash(At(nodes, i), At(nodes, i + 1))))

RECURSIVE rootWhile(_, _)
\* the while loop of root; levels records the node list after every pass
rootWhile(nodes, levels) ==
    IF Len(nodes) > 1
    THEN LET temp == rootFor(nodes, 0, <<>>)
         IN  rootWhile(temp, Append(levels, temp))
    ELSE [nodes |-> nodes, levels |-> levels]

\* the root getter: its outcome (returned node or thrown error) and the
\* levels it built, bottom level first
root(ls) ==
    LET nodes == LeafNodes(ls) IN
    IF Len(nodes) = 0
    THEN [status |-> "error", err |-> EmptyRootError,
          node |-> Undefined, levels |-> <<>>]
    ELSE IF Len(nodes) = 1
    THEN [status |-> "ok", err |-> "",
          node |-> At(nodes, 0), levels |-> <<nodes>>]
    ELSE LET r == rootWhile(nodes, <<nodes>>)
         IN  [status |-> "ok", err |-> "",
              node |-> At(r.nodes, 0), levels |-> r.levels]

(***************************************************************************)
(* Tree.prove                                                              *)
(***************************************************************************)

\* nodes.findIndex((node) => node.eq(nodeProved)): first match, or -1
findIndex(nodes, nodeProved) ==
    IF \E j \in 0..(Len(nodes) - 1) : eq(At(nodes, j), nodeProved)
    THEN CHOOSE j \in 0..(Len(nodes) - 1) :
            /\ eq(At(nodes, j), nodeProved)
            /\ \A k \in 0..(j - 1) : ~eq(At(nodes, k), nodeProved)
    ELSE 0 - 1

\* step 2 of prove: the right neighbour of an even index that has one,
\* otherwise whatever nodes[provedIdx - 1] reads as
findSibling(nodes, provedIdx) ==
    IF JSRem2(provedIdx) = 0 /\ provedIdx + 1 < Len(nodes)
    THEN At(nodes, provedIdx + 1)
    ELSE At(nodes, provedIdx - 1)

RECURSIVE nextLevelForDrop(_, _, _)
\* nextLevelFor with the odd last node dropped instead of carried up
nextLevelForDrop(nodes, i, nextLevel) ==
    IF ~(i < Len(nodes)) THEN nextLevel
    ELSE IF i + 1 < Len(nodes)
         THEN nextLevelForDrop(nodes, i + 2,
                  Append(nextLevel, hash(At(nodes, i), At(nodes, i + 1))))
         ELSE IF Len(nextLevel) = 0
              THEN Append(nextLevel, At(nodes, i))
              ELSE nextLevel

RECURSIVE nextLevelFor(_, _, _)
\* step 4 of prove: the next level of nodes
nextLevelFor(nodes, i, nextLevel) ==
    IF ~(i < Len(nodes)) THEN nextLevel
    ELSE IF i + 1 < Len(nodes)
         THEN nextLevelFor(nodes, i + 2,
                  Append(nextLevel, hash(At(nodes, i), At(nodes, i + 1))))
         ELSE nextLevelFor(nodes, i + 2, Append(nextLevel, At(nodes, i)))

RECURSIVE proveLoop(_, _, _, _, _, _)
\* the for loop of prove over i < merkleTreeLevel; levels records the node
\* list before the first iteration and after every iteration
proveLoop(i, merkleTreeLevel, nodes, nodeProved, proof, levels) ==
    IF ~(i < merkleTreeLevel)
    THEN [proof |-> proof, levels |-> levels]
    ELSE LET provedIdx == findIndex(nodes, nodeProved)
             sibling == findSibling(nodes, provedIdx)
             nextLevel == nextLevelFor(nodes, 0, <<>>)
         IN  IF sibling # Undefined
             THEN proveLoop(i + 1, merkleTreeLevel, nextLevel,
                            hash(nodeProved, sibling),
                            Append(proof, sibling), Append(levels, nextLevel))
             ELSE proveLoop(i + 1, merkleTreeLevel, nextLevel,
                            nodeProved, proof, Append(levels, nextLevel))

\* prove without the empty-tree check: the loop runs zero times
proveNoCheck(ls, leaf) ==
    LET nodes == LeafNodes(ls) IN
    IF Len(nodes) <= 1
    THEN [status |-> "ok", err |-> "", proof |-> <<>>, levels |-> <<nodes>>]
    ELSE LET r == proveLoop(0, CeilLog2(Len(nodes)), nodes, Node(leaf),
                            <<>>, <<nodes>>)
         IN  [status |-> "ok", err |-> "",
              proof |-> r.proof, levels |-> r.levels]

\* prove(leaf): its outcome (returned proof or thrown error) and the levels
\* it built
prove(ls, leaf) ==
    LET nodes == LeafNodes(ls) IN
    IF Len(nodes) = 0
    THEN [status |-> "error", err |-> EmptyProveError,
          proof |-> <<>>, levels |-> <<>>]
    ELSE IF Len(nodes) = 1
    THEN [status |-> "ok", err |-> "", proof |-> <<>>, levels |-> <<nodes>>]
    ELSE LET r == proveLoop(0, CeilLog2(Len(nodes)), nodes, Node(leaf),
                            <<>>, <<nodes>>)
         IN  [status |-> "ok", err |-> "",
              proof |-> r.proof, levels |-> r.levels]

(***************************************************************************)
(* Tree.verify                                                             *)
(***************************************************************************)

RECURSIVE verifyFor(_, _, _)
\* the for loop of verify: node = node.hash(proof[i])
verifyFor(node, proof, i) ==
    IF ~(i < Len(proof)) THEN node
    ELSE verifyFor(hash(node, At(proof, i)), proof, i + 1)

InvalidProofError == "Invalid proof"

\* verify that throws on a mismatch instead of returning false
verifyThrows(ls, leaf, proof) ==
    LET node == verifyFor(Node(leaf), proof, 0)
        r == root(ls)
    IN  IF r.status = "error"
        THEN [status |-> "error", err |-> r.err, bool |-> FALSE]
        ELSE IF eq(r.node, node)
        THEN [status |-> "ok", err |-> "", bool |-> TRUE]
        ELSE [status |-> "error", err |-> InvalidProofError, bool |-> FALSE]

\* verify that starts from the tree's first leaf instead of the given leaf
verifyFirstLeaf(ls, leaf, proof) ==
    LET r == root(ls)
    IN  IF r.status = "error"
        THEN [status |-> "error", err |-> r.err, bool |-> FALSE]
        ELSE [status |-> "ok", err |-> "",
              bool |-> eq(r.node, verifyFor(Node(ls[1]), proof, 0))]

\* verify(leaf, proof): this.root.eq(node); the root getter's error, if it
\* throws, propagates
verify(ls, leaf, proof) ==
    LET node == verifyFor(Node(leaf), proof, 0)
        r == root(ls)
    IN  IF r.status = "error"
        THEN [status |-> "error", err |-> r.err, bool |-> FALSE]
        ELSE [status |-> "ok", err |-> "", bool |-> eq(r.node, node)]

(***************************************************************************)
(* State machine                                                           *)
(***************************************************************************)

\* the lists a caller may hand to the constructor
Inputs == UNION {[1..n -> Values] : n \in 0..MaxLeaves}

NoCall == [op |-> "none", status |-> "ok", err |-> "", leaf |-> 0,
           proof |-> <<>>, node |-> Undefined, bool |-> FALSE,
           levels |-> <<>>]

\* the proofs a caller hands to verify: the proofs prove returns on this
\* tree, those proofs with the last entry removed, the empty proof and
\* one-entry proofs
ProofInputs(ls) ==
    LET proved == {prove(ls, v).proof : v \in Values} IN
    proved
      \cup {SubSeq(p, 1, Len(p) - 1) : p \in {q \in proved : Len(q) > 0}}
      \cup {<<>>}
      \cup {<<Node(v)>> : v \in Values}

\* before construction: the caller holds a list of leaves
Init ==
    /\ input \in Inputs
    /\ leaves = <<>>
    /\ constructed = FALSE
    /\ last = NoCall

\* new Tree(leaves): sorts the caller's array in place and keeps it
Construct ==
    /\ ~constructed
    /\ \E sorted \in SortOutcomes(input) :
          /\ input' = sorted
          /\ leaves' = sorted
    /\ constructed' = TRUE
    /\ last' = [NoCall EXCEPT !.op = "new"]

\* CallRoot reducing this.leaves itself instead of a mapped copy
CallRootInPlace ==
    /\ constructed
    /\ LET r == root(leaves) IN
          /\ last' = [NoCall EXCEPT !.op = "root", !.status = r.status,
                                    !.err = r.err, !.node = r.node,
                                    !.levels = r.levels]
          /\ leaves' = SubSeq(leaves, 1, IF Len(leaves) = 0 THEN 0 ELSE 1)
    /\ UNCHANGED <<input, constructed>>

\* tree.root
CallRoot ==
    /\ constructed
    /\ LET r == root(leaves) IN
          last' = [NoCall EXCEPT !.op = "root", !.status = r.status,
                                 !.err = r.err, !.node = r.node,
                                 !.levels = r.levels]
    /\ UNCHANGED <<input, leaves, constructed>>

\* tree.prove(leaf)
CallProve ==
    /\ constructed
    /\ \E leaf \in Values :
          LET r == prove(leaves, leaf) IN
          last' = [NoCall EXCEPT !.op = "prove", !.status = r.status,
                                 !.err = r.err, !.leaf = leaf,
                                 !.proof = r.proof, !.levels = r.levels]
    /\ UNCHANGED <<input, leaves, constructed>>

\* tree.verify(leaf, proof)
CallVerify ==
    /\ constructed
    /\ \E leaf \in Values, proof \in ProofInputs(leaves) :
          LET r == verify(leaves, leaf, proof) IN
          last' = [NoCall EXCEPT !.op = "verify", !.status = r.status,
                                 !.err = r.err, !.leaf = leaf,
                                 !.proof = proof, !.bool = r.bool]
    /\ UNCHANGED <<input, leaves, constructed>>

Next == Construct \/ CallRoot \/ CallProve \/ CallVerify

Spec == Init /\ [][Next]_vars

TypeOK ==
    /\ constructed \in BOOLEAN
    /\ Len(leaves) <= MaxLeaves
    /\ last.op \in {"none", "new", "root", "prove", "verify"}

(***************************************************************************)
(* Reference definitions used by the properties                            *)
(***************************************************************************)

\* the values stored in the tree
LeafSet == {leaves[i] : i \in 1..Len(leaves)}

\* one pairwise reduction with odd-node carry-up
RefLevel(nodes) ==
    [j \in 1..((Len(nodes) + 1) \div 2) |->
        IF 2 * j <= Len(nodes)
        THEN <<nodes[2 * j - 1], nodes[2 * j]>>
        ELSE nodes[2 * j - 1]]

RECURSIVE RefRoot(_)
\* the node left when the reduction is repeated until one node remains
RefRoot(nodes) ==
    IF Len(nodes) = 1 THEN nodes[1] ELSE RefRoot(RefLevel(nodes))

RECURSIVE RefProof(_, _)
\* the siblings, bottom level upward, of the node at 0-based position p and
\* of its ancestors; a level where the node is carried up adds no entry
RefProof(nodes, p) ==
    IF Len(nodes) <= 1 THEN <<>>
    ELSE LET here == IF p % 2 = 1 THEN <<nodes[p]>>
                     ELSE IF p + 2 <= Len(nodes) THEN <<nodes[p + 2]>>
                     ELSE <<>>
         IN  here \o RefProof(RefLevel(nodes), p \div 2)

\* the roots of the trees that can be built from the arrangements of ls
RootsOfArrangements(ls) ==
    {root(t).node : t \in UNION {SortOutcomes(q) : q \in Arrangements(ls)}}

\* the last call was prove(L) for a leaf L of a tree with two or more leaves
ProvedPresentLeaf ==
    /\ last.op = "prove"
    /\ Len(leaves) >= 2
    /\ last.leaf \in LeafSet

\* the last call was verify(L, prove(L)) for a leaf L of the tree
VerifiedOwnProof ==
    /\ last.op = "verify"
    /\ last.leaf \in LeafSet
    /\ last.proof = prove(leaves, last.leaf).proof

\* the last call was verify(L2, prove(L1)) for leaves L1 # L2 of a tree with
\* two or more leaves
VerifiedOtherProof ==
    /\ last.op = "verify"
    /\ Len(leaves) >= 2
    /\ last.leaf \in LeafSet
    /\ \E l1 \in LeafSet :
          l1 # last.leaf /\ last.proof = prove(leaves, l1).proof

(***************************************************************************)
(* Properties                                                              *)
(***************************************************************************)

\* C1: round trip - for every leaf L in a non-empty tree T,
\* T.verify(L, T.prove(L)) returns true.
C1_RoundTrip ==
    VerifiedOwnProof => (last.status = "ok" /\ last.bool = TRUE)

\* C2: determinism - the root of the tree is the same for every input order
\* of the same leaves: the root returned equals the root of every tree that
\* can be built from an arrangement of the same leaves.
C2_Determinism ==
    (last.op = "root" /\ last.status = "ok")
        => RootsOfArrangements(leaves) = {last.node}

\* C3 as stated: verify never fails, for every tree including the empty one.
C3_VerifyNeverFails ==
    (last.op = "verify") => (last.status = "ok")

\* C3 amended: verify on a tree with at least one leaf raises no error and
\* returns a boolean (a mismatch is false); on a tree built from an empty
\* list it fails with the root getter's empty-tree error.
C3_VerifyFailsOnlyOnEmptyTree ==
    (last.op = "verify") =>
        IF Len(leaves) = 0
        THEN last.status = "error" /\ last.err = EmptyRootError
        ELSE /\ last.status = "ok"
             /\ last.bool = (verifyFor(Node(last.leaf), last.proof, 0)
                               = RefRoot(LeafNodes(leaves)))

C3_Witness ==
    /\ last.op = "verify"
    /\ Len(leaves) >= 2
    /\ Len(last.proof) >= 1
    /\ last.status = "ok"
    /\ last.bool = FALSE

\* C4: on a tree built from an empty list root and prove(leaf) fail with the
\* empty-tree error; on a tree with at least one leaf neither raises an
\* error, whether or not the leaf is in the tree.
C4_EmptyTree ==
    /\ (last.op = "root") =>
          IF Len(leaves) = 0
          THEN last.status = "error" /\ last.err = EmptyRootError
          ELSE last.status = "ok"
    /\ (last.op = "prove") =>
          IF Len(leaves) = 0
          THEN last.status = "error" /\ last.err = EmptyProveError
          ELSE last.status = "ok"

C4_Witness ==
    /\ constructed
    /\ Len(leaves) = 0
    /\ last.op = "prove"
    /\ last.status = "error"

\* C5: for a leaf L in a tree with n >= 2 leaves, prove(L) is the sequence,
\* bottom level upward, of the siblings at the levels where L's node or its
\* ancestor had a pairing partner, and has at most ceil(log2(n)) entries.
C5_ProofIsSiblingPath ==
    ProvedPresentLeaf =>
        /\ \E p \in 0..(Len(leaves) - 1) :
              /\ leaves[p + 1] = last.leaf
              /\ last.proof = RefProof(LeafNodes(leaves), p)
        /\ Len(last.proof) <= CeilLog2(Len(leaves))

\* C6: wrong leaf - for leaves L1 # L2 of a tree with at least two leaves,
\* verify(L2, prove(L1)) returns false.
C6_WrongLeaf ==
    VerifiedOtherProof => (last.status = "ok" /\ last.bool = FALSE)

C6_Witness ==
    /\ VerifiedOtherProof
    /\ Len(leaves) >= 3
    /\ Len(last.proof) >= 2
    /\ last.bool = FALSE

\* C7: after construction the stored leaf sequence is sorted ascending.
C7_LeavesSorted ==
    constructed =>
        \A i \in 1..(Len(leaves) - 1) : leaves[i] <= leaves[i + 1]

\* C8: root equals the reference reduction over the stored leaf order; a
\* single leaf's node is returned without combination; every pass of the
\* reduction shortens the node list until one node remains.
C8_RootIsReduction ==
    (last.op = "root" /\ Len(leaves) >= 1) =>
        /\ last.status = "ok"
        /\ last.node = RefRoot(LeafNodes(leaves))
        /\ (Len(leaves) = 1) => (last.node = Node(leaves[1]))
        /\ \A k \in 1..(Len(last.levels) - 1) :
              /\ last.levels[k + 1] = RefLevel(last.levels[k])
              /\ Len(last.levels[k + 1]) < Len(last.levels[k])
        /\ last.levels[Len(last.levels)] = <<last.node>>

C8_Witness ==
    /\ last.op = "root"
    /\ Len(leaves) = 3
    /\ last.node = <<<<Node(leaves[1]), Node(leaves[2])>>, Node(leaves[3])>>

\* C9: for n >= 2 leaves prove builds the same levels as root, and
\* ceil(log2(n)) is exactly the number of reduction steps: the node list has
\* more than one node before each iteration and exactly one node, the root,
\* after the last.
C9_ProveLevelsAreRootLevels ==
    (last.op = "prove" /\ Len(leaves) >= 2) =>
        /\ last.levels = root(leaves).levels
        /\ Len(last.levels) = CeilLog2(Len(leaves)) + 1
        /\ \A k \in 1..(Len(last.levels) - 1) : Len(last.levels[k]) > 1
        /\ last.levels[Len(last.levels)] = <<root(leaves).node>>

C9_Witness ==
    /\ last.op = "prove"
    /\ Len(leaves) = 3
    /\ Len(last.levels) = 3
    /\ Len(last.levels[2]) = 2

\* C10: root, prove and verify are read-only - a call leaves the stored
\* leaf sequence unchanged and returns what it returns on the tree as
\* constructed.
C10_ReadOnly ==
    [][constructed =>
          /\ leaves' = leaves
          /\ (last'.op = "root") => (last'.node = root(leaves).node)
          /\ (last'.op = "prove") =>
                (last'.proof = prove(leaves, last'.leaf).proof)
          /\ (last'.op = "verify") =>
                (last'.bool = verify(leaves, last'.leaf, last'.proof).bool)
      ]_vars

C10_Witness ==
    /\ last.op = "verify"
    /\ Len(leaves) >= 2
    /\ last.bool = TRUE
    /\ Len(last.proof) >= 1

====
